---------------------------- MODULE Spec2Model ----------------------------
(***************************************************************************)
(* A model of the contact scraper: the extraction cascade of scraper.py,   *)
(* the normalizer of data_processor.py and the two search routes of        *)
(* app.py.                                                                 *)
(*                                                                         *)
(* Strings are sequences of tokens.  A token is a word ("info", "Bakery")  *)
(* or a single character ("@", ".", "9").  Substring tests, lowercasing,   *)
(* digit stripping and the regular expressions are computed on the token   *)
(* sequences.  Python's None is the one-token string None; '' is <<>>.     *)
(***************************************************************************)
EXTENDS Integers, Sequences, FiniteSets, TLC

(* ------------------------------ bounds -------------------------------- *)

\* elements of a document (extraction)
MaxElems == 2
\* filler digits of a phone string (format_phone)
MaxFill == 10
\* records of a raw record list (normalizer)
MaxRecs == 3
\* anchors of a document (find_contact_pages)
MaxAnchors == 4
\* candidates the search resolver returns in a run
MaxCand == 2

(* ------------------------------ strings ------------------------------- *)

None == <<"None">>

\* Python truthiness of an optional string: None and '' are falsy
Truthy(s) == s # None /\ s # <<>>

\* str.lower(), token by token
LowerTok(t) ==
    CASE t = "Info"   -> "info"
      [] t = "Bakery" -> "bakery"
      [] t = "COM"    -> "com"
      [] t = "Acme"   -> "acme"
      [] t = "Contact" -> "contact"
      [] t = "About"  -> "about"
      [] t = "Menu"   -> "menu"
      [] t = "Cafe"   -> "cafe"
      [] t = "Deli"   -> "deli"
      [] OTHER        -> t

Lower(s) == [i \in 1..Len(s) |-> LowerTok(s[i])]

\* pattern in s (substring test)
Contains(s, pattern) ==
    \E i \in 0..(Len(s) - Len(pattern)) :
        \A k \in 1..Len(pattern) : s[i + k] = pattern[k]

ContainsAny(s, patterns) == \E p \in patterns : Contains(s, p)

Digit == {"0", "1", "2", "3", "4", "5", "6", "7", "8", "9"}

\* tokens that are one character long; every other token is a longer word
SingleChar == Digit \cup {"@", ".", "|", "[", "]", "+", "-", " ", "_", "%", "c", "x", "y"}

\* words made of letters only
LetterTok == {"info", "Info", "john", "image", "sales", "bakery", "Bakery",
              "example", "com", "COM", "png", "c", "x", "y", "acme", "cafe", "deli"}

\* words made of letters and digits
WordTok == LetterTok \cup Digit \cup {"2x"}

CharLen(t) == IF t \in SingleChar THEN 1 ELSE 2

RECURSIVE StrLen(_)
StrLen(s) == IF s = <<>> THEN 0 ELSE CharLen(Head(s)) + StrLen(Tail(s))

\* re.sub(r'\D', '', s)
RECURSIVE StripNonDigits(_)
StripNonDigits(s) ==
    IF s = <<>> THEN <<>>
    ELSE IF Head(s) \in Digit THEN <<Head(s)>> \o StripNonDigits(Tail(s))
    ELSE StripNonDigits(Tail(s))

(* ------------------- the address pattern of the code ------------------ *)

\* [A-Za-z0-9._%+-]+
LocalOk(s) == s # <<>> /\ \A i \in 1..Len(s) : s[i] \in WordTok \cup {".", "_", "%", "+", "-"}

\* [A-Za-z0-9.-]+
DomOk(s) == s # <<>> /\ \A i \in 1..Len(s) : s[i] \in WordTok \cup {".", "-"}

\* [A-Z|a-z]{2,}
TldOk(s) == StrLen(s) >= 2 /\ \A i \in 1..Len(s) : s[i] \in LetterTok \cup {"|"}

\* an address as it is written in a document: local part, domain, top-level
\* domain, and whether "@" and "." are wrapped in brackets (info [@] x [.] com)
PlainText(a) == a.local \o <<"@">> \o a.dom \o <<".">> \o a.tld

AddrText(a) ==
    IF a.obf
    THEN a.local \o <<" ", "[", "@", "]", " ">> \o a.dom \o <<" ", "[", ".", "]", " ">> \o a.tld
    ELSE PlainText(a)

\* the pattern  local@domain.tld  of lines 457, 485 and 512 matches the text of a
StdMatch(a) == ~a.obf /\ LocalOk(a.local) /\ DomOk(a.dom) /\ TldOk(a.tld)

\* the obfuscated pattern of line 502 matches the text of a: brackets and
\* blanks around "@" and "." are optional, the last group is [A-Za-z]{2,}
ObfMatch(a) ==
    /\ LocalOk(a.local) /\ DomOk(a.dom)
    /\ a.tld # <<>> /\ Head(a.tld) \in LetterTok /\ CharLen(Head(a.tld)) >= 2

\* f"{m[0]}@{m[1]}.{m[2]}" of line 505
ObfText(a) == a.local \o <<"@">> \o a.dom \o <<".", Head(a.tld)>>


(* ----------------------------- documents ------------------------------ *)

\* A document is the sequence of its elements in document order.  An element
\* carries an address text or a phone text:
\*   "mailto"   <a href="mailto:ADDR">        "tel"  <a href="tel:PHONE">
\*   "data"     <span data-email="ADDR">
\*   "section"  <footer class="footer">TEXT</footer>   (a scoped region)
\*   "text"     TEXT anywhere else in the page source
NoAddr == [local |-> <<>>, dom |-> <<>>, tld |-> <<>>, obf |-> FALSE]

Addr(l, d, t) == [local |-> <<l>>, dom |-> <<d>>, tld |-> t, obf |-> FALSE]

AddrPool ==
    { Addr("Info", "Bakery", <<"COM">>),
      Addr("john", "bakery", <<"com">>),
      Addr("info", "example", <<"com">>),
      Addr("image", "2x", <<"png">>),
      Addr("john", "bakery", <<"c">>),
      Addr("sales", "bakery", <<"x", "|", "y">>),
      [Addr("john", "bakery", <<"com">>) EXCEPT !.obf = TRUE] }

D10 == <<"9", "8", "7", "6", "5", "4", "3", "2", "1", "0">>

PhonePool ==
    { D10,
      <<"+", "9", "1", "-">> \o D10,
      <<"9", "8", "7", "-", "6", "5", "4", "-", "3", "2", "1", "0">>,
      <<"1", "2", "3", "4", "5">> }

AddrElem(k, a) == [kind |-> k, addr |-> a, phone |-> None]

PhoneElem(k, p) == [kind |-> k, addr |-> NoAddr, phone |-> p]

ElemPool ==
    {AddrElem(k, a) : k \in {"mailto", "data", "section", "text"}, a \in AddrPool}
    \cup {PhoneElem(k, p) : k \in {"tel", "section", "text"}, p \in PhonePool}

HasAddr(e) == e.addr # NoAddr

ElemText(e) == IF HasAddr(e) THEN AddrText(e.addr) ELSE e.phone

RECURSIVE Join(_, _)
Join(texts, sep) ==
    IF texts = <<>> THEN <<>>
    ELSE IF Len(texts) = 1 THEN texts[1]
    ELSE texts[1] \o sep \o Join(Tail(texts), sep)

\* soup.find_all(...) of one kind of element, in document order
FindAll(doc, k) == SelectSeq(doc, LAMBDA e : e.kind = k)

\* driver.page_source / response.text: every element's text, markup between
PageSource(doc) == Join([i \in 1..Len(doc) |-> ElemText(doc[i])], <<"<">>)

\* the first element of s, as a sequence of zero or one
First(s) == IF s = <<>> THEN <<>> ELSE <<Head(s)>>

(* -------------------------- phone patterns ---------------------------- *)

Item(cls) == [cls |-> cls, opt |-> FALSE]

Opt(cls) == [cls |-> cls, opt |-> TRUE]

Rep(item, n) == [i \in 1..n |-> item]

\* [6-9]\d{9}
Mobile == <<Item({"6", "7", "8", "9"})>> \o Rep(Item(Digit), 9)

\* \+91[-\s]?
CountryPrefix == <<Item({"+"}), Item({"9"}), Item({"1"}), Opt({"-", " "})>>

\* \+91[-.\s]?\d{10}
WithCountryCode ==
    <<Item({"+"}), Item({"9"}), Item({"1"}), Opt({"-", ".", " "})>> \o Rep(Item(Digit), 10)

\* [6-9]\d{2}[-.\s]?\d{3}[-.\s]?\d{4}
WithSeparators ==
    <<Item({"6", "7", "8", "9"})>> \o Rep(Item(Digit), 2) \o <<Opt({"-", ".", " "})>>
    \o Rep(Item(Digit), 3) \o <<Opt({"-", ".", " "})>> \o Rep(Item(Digit), 4)

\* the position after the match of pat at position i of s, or 0: an optional
\* item is taken when the rest then matches, and skipped otherwise
RECURSIVE MatchEnd(_, _, _)
MatchEnd(pat, s, i) ==
    IF pat = <<>> THEN i
    ELSE LET take == IF i <= Len(s) /\ s[i] \in Head(pat).cls
                     THEN MatchEnd(Tail(pat), s, i + 1) ELSE 0
         IN  IF take # 0 THEN take
             ELSE IF Head(pat).opt THEN MatchEnd(Tail(pat), s, i) ELSE 0

MatchStarts(pat, s) == {i \in 1..Len(s) : MatchEnd(pat, s, i) # 0}

Min(S) == CHOOSE i \in S : \A j \in S : i <= j

\* re.findall(pat, s)[0] for a pattern without groups; None when no match
FirstMatch(pat, s) ==
    IF MatchStarts(pat, s) = {} THEN None
    ELSE LET i == Min(MatchStarts(pat, s)) IN SubSeq(s, i, MatchEnd(pat, s, i) - 1)

\* re.findall(r'(\+91[-\s]?)?[6-9]\d{9}', s)[0]: the pattern has one group, so
\* findall yields the text of the group, '' when the group took no part
FirstMobileGroup(s) ==
    LET starts == MatchStarts(CountryPrefix \o Mobile, s) \cup MatchStarts(Mobile, s)
    IN  IF starts = {} THEN None
        ELSE LET i == Min(starts)
             IN  IF MatchEnd(CountryPrefix \o Mobile, s, i) # 0
                 THEN SubSeq(s, i, MatchEnd(CountryPrefix \o Mobile, s, i) - 11)
                 ELSE <<>>


(* ----------------------- the extraction cascade ----------------------- *)

\* excluded_patterns of method 3 (scoped regions)
ExcludedScoped ==
    { <<"example", ".", "com">>, <<"domain", ".", "com">>, <<"email", ".", "com">>,
      <<"test", ".", "com">>, <<"wix", ".", "com">>, <<"sitelock", ".", "com">>,
      <<"placeholder">>, <<"yoursite">>, <<"yourdomain">> }

\* excluded_patterns of method 5 (whole page source)
ExcludedGeneral ==
    { <<"example", ".", "com">>, <<"domain", ".", "com">>, <<"email", ".", "com">>,
      <<"test", ".", "com">>, <<"wix", ".", "com">>, <<"sitelock", ".", "com">>,
      <<"schema", ".", "org">>, <<"w3", ".", "org">>, <<"placeholder">>,
      <<"@", "2x", ".", "png">>, <<"@", "3x", ".", "png">>, <<"googletagmanager">>,
      <<"analytics">>, <<"facebook", ".", "com">>, <<"twitter", ".", "com">>,
      <<"instagram", ".", "com">> }

BusinessPrefixes ==
    { <<"info">>, <<"contact">>, <<"hello">>, <<"support">>, <<"mail">>,
      <<"inquiry">>, <<"sales">>, <<"admin">> }

\* MailtoTier that keeps the case of the address it finds
MailtoTierKeepsCase(doc) ==
    LET hit == First(SelectSeq(FindAll(doc, "mailto"), LAMBDA e : StdMatch(e.addr)))
    IN  IF hit = <<>> THEN None ELSE PlainText(hit[1].addr)

\* Method 1: the first mailto link whose target holds an address
MailtoTier(doc) ==
    LET hit == First(SelectSeq(FindAll(doc, "mailto"), LAMBDA e : StdMatch(e.addr)))
    IN  IF hit = <<>> THEN None ELSE Lower(PlainText(hit[1].addr))

\* Method 2: the first data-email attribute with an "@" and a "." in it
DataTier(doc) ==
    LET hit == First(SelectSeq(FindAll(doc, "data"),
                          LAMBDA e : /\ Contains(AddrText(e.addr), <<"@">>)
                                     /\ Contains(AddrText(e.addr), <<".">>)))
    IN  IF hit = <<>> THEN None ELSE Lower(AddrText(hit[1].addr))

\* Method 3: the first scoped region whose text holds an address that is
\* not excluded
SectionTier(doc) ==
    LET hit == First(SelectSeq(FindAll(doc, "section"),
                          LAMBDA e : /\ HasAddr(e) /\ StdMatch(e.addr)
                                     /\ ~ContainsAny(Lower(AddrText(e.addr)), ExcludedScoped)))
    IN  IF hit = <<>> THEN None ELSE Lower(AddrText(hit[1].addr))

\* Method 4: the first match of the obfuscated pattern in the page source
ObfTier(doc) ==
    LET hit == First(SelectSeq(doc, LAMBDA e : HasAddr(e) /\ ObfMatch(e.addr)))
    IN  IF hit = <<>> THEN None ELSE Lower(ObfText(hit[1].addr))

\* Method 5: the matches of the address pattern in the page source that are
\* not excluded; the first with a business prefix in it, else the first
GeneralTier(doc) ==
    LET valid == SelectSeq(doc, LAMBDA e : /\ HasAddr(e) /\ StdMatch(e.addr)
                                           /\ ~ContainsAny(Lower(AddrText(e.addr)), ExcludedGeneral))
        pref  == First(SelectSeq(valid, LAMBDA e : ContainsAny(Lower(AddrText(e.addr)), BusinessPrefixes)))
    IN  IF pref # <<>> THEN Lower(AddrText(pref[1].addr))
        ELSE IF valid # <<>> THEN Lower(AddrText(valid[1].addr))
        ELSE None

\* the number of the method that sets the email, 0 when none does
EmailTier(doc) ==
    IF Truthy(MailtoTier(doc)) THEN 1
    ELSE IF Truthy(DataTier(doc)) THEN 2
    ELSE IF Truthy(SectionTier(doc)) THEN 3
    ELSE IF Truthy(ObfTier(doc)) THEN 4
    ELSE IF Truthy(GeneralTier(doc)) THEN 5
    ELSE 0

ExtractEmail(doc) ==
    CASE EmailTier(doc) = 1 -> MailtoTier(doc)
      [] EmailTier(doc) = 2 -> DataTier(doc)
      [] EmailTier(doc) = 3 -> SectionTier(doc)
      [] EmailTier(doc) = 4 -> ObfTier(doc)
      [] EmailTier(doc) = 5 -> GeneralTier(doc)
      [] OTHER -> None

\* phone method 1: the first tel link with 10 digits or more
TelTier(doc) ==
    LET hit == First(SelectSeq(FindAll(doc, "tel"), LAMBDA e : Len(StripNonDigits(e.phone)) >= 10))
    IN  IF hit = <<>> THEN None ELSE StripNonDigits(hit[1].phone)

\* phone method 2: the three patterns in order over the scoped regions, or
\* over the page source when the document has no scoped region; a pattern
\* that matches sets the phone, and the loop stops at 10 digits or more
PatternTier(doc) ==
    LET sections == FindAll(doc, "section")
        text == IF sections # <<>>
                THEN Join([i \in 1..Len(sections) |-> ElemText(sections[i])], <<" ">>)
                ELSE PageSource(doc)
        m1 == FirstMobileGroup(text)
        m2 == FirstMatch(WithCountryCode, text)
        m3 == FirstMatch(WithSeparators, text)
        p1 == IF m1 = None THEN None ELSE StripNonDigits(m1)
        b1 == m1 # None /\ Len(p1) >= 10
        p2 == IF b1 \/ m2 = None THEN p1 ELSE StripNonDigits(m2)
        b2 == b1 \/ (m2 # None /\ Len(p2) >= 10)
        p3 == IF b2 \/ m3 = None THEN p2 ELSE StripNonDigits(m3)
    IN  p3

ExtractPhone(doc) ==
    IF Truthy(TelTier(doc)) THEN TelTier(doc) ELSE PatternTier(doc)

extract_contact_info_from_website(doc) ==
    [email |-> ExtractEmail(doc), phone |-> ExtractPhone(doc)]

(* --------------------------- data_processor --------------------------- *)

validate_email(email_string) ==
    /\ Truthy(email_string)
    /\ \E i, j \in 1..Len(email_string) :
          /\ i < j
          /\ email_string[i] = "@"
          /\ email_string[j] = "."
          /\ LocalOk(SubSeq(email_string, 1, i - 1))
          /\ DomOk(SubSeq(email_string, i + 1, j - 1))
          /\ TldOk(SubSeq(email_string, j + 1, Len(email_string)))

\* format_phone that prefixes a 10-digit input as it was given
format_phone_unstripped(phone_string) ==
    IF ~Truthy(phone_string) THEN None
    ELSE LET digits == StripNonDigits(phone_string)
             recoded == <<"+">> \o SubSeq(digits, 1, 2) \o <<"-">>
                        \o SubSeq(digits, 3, Len(digits))
         IN  IF Len(digits) = 10 THEN <<"+", "9", "1", "-">> \o phone_string
             ELSE IF Len(digits) = 12 /\ SubSeq(digits, 1, 2) = <<"9", "1">> THEN recoded
             ELSE IF Len(digits) > 10 THEN recoded
             ELSE phone_string

format_phone(phone_string) ==
    IF ~Truthy(phone_string) THEN None
    ELSE LET digits == StripNonDigits(phone_string)
             recoded == <<"+">> \o SubSeq(digits, 1, 2) \o <<"-">>
                        \o SubSeq(digits, 3, Len(digits))
         IN  IF Len(digits) = 10 THEN <<"+", "9", "1", "-">> \o digits
             ELSE IF Len(digits) = 12 /\ SubSeq(digits, 1, 2) = <<"9", "1">> THEN recoded
             ELSE IF Len(digits) > 10 THEN recoded
             ELSE phone_string

\* str.strip()
RECURSIVE LStrip(_)
LStrip(s) == IF s # <<>> /\ Head(s) = " " THEN LStrip(Tail(s)) ELSE s

RECURSIVE RStrip(_)
RStrip(s) == IF s # <<>> /\ s[Len(s)] = " " THEN RStrip(SubSeq(s, 1, Len(s) - 1)) ELSE s

Strip(s) == RStrip(LStrip(s))

clean_contact_data(raw_data) ==
    [ business_name |-> IF Truthy(raw_data.business_name)
                        THEN Strip(raw_data.business_name) ELSE raw_data.business_name,
      email         |-> IF Truthy(raw_data.email) /\ validate_email(raw_data.email)
                        THEN Lower(Strip(raw_data.email)) ELSE None,
      phone         |-> format_phone(raw_data.phone),
      website       |-> IF Truthy(raw_data.website) THEN Strip(raw_data.website) ELSE None,
      source_url    |-> raw_data.source_url ]

\* item.get('business_name', '').lower() raises AttributeError when the key
\* is present with the value None
KeyRaises(item) == item.business_name = None

Identifier(item) == <<Lower(item.business_name), item.email, item.phone>>

\* any(identifier)
AnyField(id) == \E k \in 1..Len(id) : Truthy(id[k])

RECURSIVE UniqueFrom(_, _)
UniqueFrom(data_list, seen) ==
    IF data_list = <<>> THEN <<>>
    ELSE LET item == Head(data_list)
             id   == Identifier(item)
         IN  IF ~AnyField(id) \/ id \in seen
             THEN UniqueFrom(Tail(data_list), seen)
             ELSE <<item>> \o UniqueFrom(Tail(data_list), seen \cup {id})

\* the function's outcome: raised, or the list it returns
remove_duplicates(data_list) ==
    IF \E i \in 1..Len(data_list) : KeyRaises(data_list[i])
    THEN [raised |-> TRUE, value |-> <<>>]
    ELSE [raised |-> FALSE, value |-> UniqueFrom(data_list, {})]

\* HasContact that also lets a record pass on its name alone
HasContactOrName(item) ==
    \/ Truthy(item.email) \/ Truthy(item.phone) \/ Truthy(item.website)
    \/ Truthy(item.business_name)

HasContact(item) == Truthy(item.email) \/ Truthy(item.phone) \/ Truthy(item.website)

process_scraped_data(raw_data_list) ==
    LET cleaned_list == [i \in 1..Len(raw_data_list) |-> clean_contact_data(raw_data_list[i])]
        unique_list  == remove_duplicates(cleaned_list)
    IN  IF unique_list.raised THEN [raised |-> TRUE, value |-> <<>>]
        ELSE [raised |-> FALSE, value |-> SelectSeq(unique_list.value, HasContact)]


(* -------------------------------- URLs -------------------------------- *)

\* A URL string is scheme, "://", the tokens of the host, then the path, each
\* path segment after a "/" token:  https :// bakery . com / contact

PathStart == {"/", "#", "?"}

\* the tokens of s before the first token in stops
RECURSIVE TakeUntil(_, _)
TakeUntil(s, stops) ==
    IF s = <<>> \/ Head(s) \in stops THEN <<>>
    ELSE <<Head(s)>> \o TakeUntil(Tail(s), stops)

DropFirst(s, n) == SubSeq(s, n + 1, Len(s))

\* urllib.parse.urlparse: scheme, netloc and the rest
urlparse(url) ==
    IF Len(url) >= 2 /\ url[2] = "://"
    THEN LET rest == DropFirst(url, 2)
             host == TakeUntil(rest, PathStart)
         IN  [scheme |-> url[1], netloc |-> host, path |-> DropFirst(rest, Len(host))]
    ELSE IF Len(url) >= 2 /\ url[2] = ":"
    THEN [scheme |-> url[1], netloc |-> <<>>, path |-> DropFirst(url, 2)]
    ELSE IF Len(url) >= 1 /\ url[1] = "//"
    THEN LET rest == DropFirst(url, 1)
             host == TakeUntil(rest, PathStart)
         IN  [scheme |-> "", netloc |-> host, path |-> DropFirst(rest, Len(host))]
    ELSE [scheme |-> "", netloc |-> <<>>, path |-> url]

\* the path of the base URL up to and with its last "/"
RECURSIVE DirOf(_)
DirOf(path) ==
    IF path = <<>> THEN <<"/">>
    ELSE IF path[Len(path)] = "/" THEN path
    ELSE DirOf(SubSeq(path, 1, Len(path) - 1))

\* urllib.parse.urljoin(base_url, href)
urljoin(base_url, href) ==
    LET b == urlparse(base_url)
        h == urlparse(href)
        origin == <<b.scheme, "://">> \o b.netloc
    IN  IF href = <<>> THEN base_url
        ELSE IF h.scheme # "" THEN href
        ELSE IF h.netloc # <<>> \/ (Len(href) >= 1 /\ href[1] = "//")
             THEN <<b.scheme, "://">> \o h.netloc \o h.path
        ELSE IF Head(href) = "/" THEN origin \o href
        ELSE IF Head(href) \in {"#", "?"} THEN origin \o TakeUntil(b.path, {Head(href), "#"}) \o href
        ELSE origin \o DirOf(TakeUntil(b.path, {"#", "?"})) \o href

(* -------------------------- find_contact_pages ------------------------ *)

\* contact_keywords
ContactKeywords ==
    { <<"contact">>, <<"about">>, <<"reach">>, <<"get-in-touch">>, <<"connect">>, <<"support">> }

\* return unique_pages[:3]
MaxContactPages == 3

\* an anchor <a href=HREF>TEXT</a>
Anchor(href, text) == [href |-> href, text |-> text]

Qualifies(link) ==
    \E keyword \in ContactKeywords :
        Contains(Lower(link.href), keyword) \/ Contains(Lower(Strip(link.text)), keyword)

\* the first occurrences of the members of s, in order
RECURSIVE UniqueInOrder(_, _)
UniqueInOrder(s, seen) ==
    IF s = <<>> THEN <<>>
    ELSE IF Head(s) \in seen THEN UniqueInOrder(Tail(s), seen)
    ELSE <<Head(s)>> \o UniqueInOrder(Tail(s), seen \cup {Head(s)})

Prefix(s, n) == SubSeq(s, 1, IF Len(s) < n THEN Len(s) ELSE n)

\* SameDomain that accepts every host
SameDomainAnyHost(base_url, link) == urlparse(urljoin(base_url, link.href)).scheme # "mailto"

SameDomain(base_url, link) ==
    urlparse(urljoin(base_url, link.href)).netloc = urlparse(base_url).netloc

find_contact_pages(anchors, base_url) ==
    LET links == SelectSeq(anchors, LAMBDA link : Qualifies(link) /\ SameDomain(base_url, link))
        contact_pages == [i \in 1..Len(links) |-> urljoin(base_url, links[i].href)]
    IN  Prefix(UniqueInOrder(contact_pages, {}), MaxContactPages)


(* ------------------------------- state -------------------------------- *)

VARIABLES
    pc,             \* the position of the operation under way
    doc,            \* the document a fetch has returned
    contact_info,   \* what extract_contact_info_from_website returned for it
    phone_string,   \* the argument of format_phone
    formatted,      \* format_phone(phone_string)
    reformatted,    \* format_phone(formatted)
    raw_data_list,  \* the argument of process_scraped_data
    cleaned_list,   \* its list after clean_contact_data
    unique_list,    \* the outcome of remove_duplicates on that list
    response,       \* the outcome of process_scraped_data
    anchors,        \* the anchors of the document given to find_contact_pages
    base_url,       \* its base URL
    contact_pages,  \* the list find_contact_pages returned
    mode,           \* the route of the run: "directory" or "web_search"
    urls,           \* the candidates the search resolver returned
    idx,            \* the candidate under way, from 1
    maps_data,      \* what scrape_google_maps_page returned for it
    site,           \* the website scrape_single_page is called on
    contact,        \* the contact record that call is building
    pending,        \* the contact pages it has still to visit
    fast_result,    \* what the fast fetch of that call returned
    steps,          \* the fetches and session starts made for the candidate
    results,        \* the raw records collected so far
    reply,          \* the reply of the route
    session,        \* the browser sessions that are open
    search_outcome, \* how the search resolver ended
    alloc_failed,   \* a browser session could not be started in this run
    fetch_count,    \* the fetches made for candidates in this run
    mailto_seen,    \* per finished candidate: a fetch showed a mailto link
    paused          \* no candidate fetch was made since the last pause

extractVars == <<doc, contact_info>>
phoneVars == <<phone_string, formatted, reformatted>>
normVars == <<raw_data_list, cleaned_list, unique_list, response>>
linkVars == <<anchors, base_url, contact_pages>>

candVars == <<maps_data, site, contact, pending, fast_result, steps>>
runVars == <<mode, urls, idx, candVars, results, reply, session, search_outcome,
             alloc_failed, fetch_count, mailto_seen, paused>>

vars == <<pc, extractVars, phoneVars, normVars, linkVars, runVars>>

NoContact == [email |-> None, phone |-> None]

NoOutcome == [raised |-> FALSE, value |-> <<>>]

ExtractIdle == doc = <<>> /\ contact_info = NoContact

PhoneIdle == phone_string = None /\ formatted = None /\ reformatted = None

NormIdle ==
    /\ raw_data_list = <<>> /\ cleaned_list = <<>>
    /\ unique_list = NoOutcome /\ response = NoOutcome

LinkIdle == anchors = <<>> /\ base_url = <<>> /\ contact_pages = <<>>

NoMaps == [business_name |-> None, phone |-> None, website |-> None]

NoReply == [status |-> "none", results_count |-> 0, data |-> <<>>]

CandIdle ==
    /\ maps_data = NoMaps /\ site = <<>> /\ contact = NoContact /\ pending = <<>>
    /\ fast_result = NoContact /\ steps = <<>>

RunIdle ==
    /\ mode = "none" /\ urls = <<>> /\ idx = 0 /\ CandIdle
    /\ results = <<>> /\ reply = NoReply /\ session = 0
    /\ search_outcome = "none" /\ alloc_failed = FALSE /\ fetch_count = 0
    /\ mailto_seen = <<>> /\ paused = TRUE

\* the sequences over S of length at most n
SeqsUpTo(S, n) == UNION {[1..k -> S] : k \in 0..n}

(* ------------------ extraction of one fetched document ---------------- *)

SiteUrl == <<"https", "://", "bakery", ".", "com", "/">>

InitExtract ==
    /\ pc = "fetched"
    /\ doc \in SeqsUpTo(ElemPool, MaxElems)
    /\ contact_info = NoContact
    /\ PhoneIdle /\ NormIdle /\ LinkIdle /\ RunIdle

\* scrape_with_requests after a successful fetch: the document is parsed
\* and handed to the extractor
ExtractContact ==
    /\ pc = "fetched"
    /\ contact_info' = extract_contact_info_from_website(doc)
    /\ pc' = "extracted"
    /\ UNCHANGED <<runVars, doc, phoneVars, normVars, linkVars>>

\* the record the search loop builds from the extractor's result, and the
\* normalizer on the one-record list
ProcessContact ==
    /\ pc = "extracted"
    /\ LET raw == << [ business_name |-> <<"Bakery">>,
                       email         |-> contact_info.email,
                       phone         |-> contact_info.phone,
                       website       |-> SiteUrl,
                       source_url    |-> SiteUrl ] >>
           cleaned == [i \in 1..Len(raw) |-> clean_contact_data(raw[i])]
       IN  /\ raw_data_list' = raw
           /\ cleaned_list' = cleaned
           /\ unique_list' = remove_duplicates(cleaned)
           /\ response' = process_scraped_data(raw)
    /\ pc' = "processed"
    /\ UNCHANGED <<runVars, extractVars, phoneVars, linkVars>>

NextExtract == ExtractContact \/ ProcessContact

SpecExtract == InitExtract /\ [][NextExtract]_vars

(* ----------------------------- format_phone --------------------------- *)

\* phone strings: a head of up to three characters, then filler digits
PhoneHeads == SeqsUpTo({"+", "9", "1", "-"}, 3)

PhoneInputs ==
    {None} \cup {h \o [i \in 1..k |-> "5"] : h \in PhoneHeads, k \in 0..MaxFill}

InitPhone ==
    /\ pc = "phone"
    /\ phone_string \in PhoneInputs
    /\ formatted = None /\ reformatted = None
    /\ ExtractIdle /\ NormIdle /\ LinkIdle /\ RunIdle

FormatPhone ==
    /\ pc = "phone"
    /\ formatted' = format_phone(phone_string)
    /\ pc' = "formatted"
    /\ UNCHANGED <<runVars, phone_string, reformatted, extractVars, normVars, linkVars>>

FormatAgain ==
    /\ pc = "formatted"
    /\ reformatted' = format_phone(formatted)
    /\ pc' = "reformatted"
    /\ UNCHANGED <<runVars, phone_string, formatted, extractVars, normVars, linkVars>>

NextPhone == FormatPhone \/ FormatAgain

SpecPhone == InitPhone /\ [][NextPhone]_vars


(* --------------------------- the normalizer --------------------------- *)

Raw(name, email, phone, website, source) ==
    [ business_name |-> name, email |-> email, phone |-> phone,
      website |-> website, source_url |-> source ]

MapsUrl1 == <<"https", "://", "www", ".", "google", ".", "com", "/", "maps", "/", "place", "/", "1">>

MapsUrl2 == <<"https", "://", "www", ".", "google", ".", "com", "/", "maps", "/", "place", "/", "2">>

JohnAtBakery == <<"john", "@", "bakery", ".", "com">>

\* raw records as the two search loops build them
RawPool ==
    { Raw(<<"Acme">>, JohnAtBakery, D10, SiteUrl, MapsUrl1),
      Raw(<<"acme">>, JohnAtBakery, D10, SiteUrl, MapsUrl2),
      Raw(<<"Acme">>, None, None, None, MapsUrl1),
      Raw(<<>>, None, None, None, MapsUrl1),
      Raw(<<>>, None, None, SiteUrl, SiteUrl),
      Raw(None, None, None, None, MapsUrl2),
      Raw(None, JohnAtBakery, None, SiteUrl, MapsUrl1),
      Raw(<<"Acme", " ">>, <<"john", " ", "[", "@", "]", " ", "bakery", ".", "com">>,
          <<"1", "2", "3", "4", "5">>, None, MapsUrl1),
      Raw(<<"Bakery">>, <<"Info", "@", "Bakery", ".", "COM">>, <<"+", "9", "1", "-">>,
          SiteUrl, SiteUrl) }

InitNorm ==
    /\ pc = "raw"
    /\ raw_data_list \in SeqsUpTo(RawPool, MaxRecs)
    /\ cleaned_list = <<>> /\ unique_list = NoOutcome /\ response = NoOutcome
    /\ ExtractIdle /\ PhoneIdle /\ LinkIdle /\ RunIdle

\* process_scraped_data, with the lists of its steps 1 and 2 kept
ProcessRaw ==
    /\ pc = "raw"
    /\ LET cleaned == [i \in 1..Len(raw_data_list) |-> clean_contact_data(raw_data_list[i])]
       IN  /\ cleaned_list' = cleaned
           /\ unique_list' = remove_duplicates(cleaned)
    /\ response' = process_scraped_data(raw_data_list)
    /\ pc' = "processed"
    /\ UNCHANGED <<runVars, raw_data_list, extractVars, phoneVars, linkVars>>

NextNorm == ProcessRaw

SpecNorm == InitNorm /\ [][NextNorm]_vars

(* ----------------------- discovery of contact pages ------------------- *)

Href(path) == <<"/", path>>

AnchorPool ==
    { Anchor(Href("contact"), <<"Contact", " ", "Us">>),
      Anchor(Href("about"), <<"About">>),
      Anchor(Href("menu"), <<"Menu">>),
      Anchor(Href("menu"), <<" ", "Contact">>),
      Anchor(<<"https", "://", "bakery", ".", "com", "/", "contact">>, <<"Contact">>),
      Anchor(<<"https", "://", "other", ".", "com", "/", "contact">>, <<"Contact">>),
      Anchor(<<"mailto", ":", "contact", "@", "bakery", ".", "com">>, <<"Mail">>),
      Anchor(Href("support"), <<"Help">>),
      Anchor(<<"//", "other", ".", "com", "/", "about">>, <<"Menu">>),
      Anchor(Href("Contact"), <<"Menu">>) }

BaseUrls ==
    { SiteUrl, <<"https", "://", "www", ".", "bakery", ".", "com", "/", "home">> }

InitLinks ==
    /\ pc = "rendered"
    /\ anchors \in SeqsUpTo(AnchorPool, MaxAnchors)
    /\ base_url \in BaseUrls
    /\ contact_pages = <<>>
    /\ ExtractIdle /\ PhoneIdle /\ NormIdle /\ RunIdle

FindContactPages ==
    /\ pc = "rendered"
    /\ contact_pages' = find_contact_pages(anchors, base_url)
    /\ pc' = "discovered"
    /\ UNCHANGED <<runVars, anchors, base_url, extractVars, phoneVars, normVars>>

NextLinks == FindContactPages

SpecLinks == InitLinks /\ [][NextLinks]_vars


(* ------------------------------ the run ------------------------------- *)

idleVars == <<extractVars, phoneVars, normVars, linkVars>>

SiteNames == <<"bakery", "acme", "cafe", "deli">>

\* str.title(), token by token
TitleTok(t) ==
    CASE t = "bakery" -> "Bakery"
      [] t = "acme"   -> "Acme"
      [] t = "cafe"   -> "Cafe"
      [] t = "deli"   -> "Deli"
      [] OTHER        -> t

Title(s) == [i \in 1..Len(s) |-> TitleTok(s[i])]

\* str.replace(old, '')
RECURSIVE RemoveAll(_, _)
RemoveAll(s, old) ==
    IF Len(s) < Len(old) \/ old = <<>> THEN s
    ELSE IF SubSeq(s, 1, Len(old)) = old THEN RemoveAll(DropFirst(s, Len(old)), old)
    ELSE <<Head(s)>> \o RemoveAll(Tail(s), old)

\* the website of candidate i, and its page in the directory
WebsiteOf(i) ==
    IF i % 2 = 0 THEN <<"https", "://", "www", ".", SiteNames[i], ".", "com", "/">>
    ELSE <<"https", "://", SiteNames[i], ".", "com", "/">>

MapsUrlOf(i) ==
    <<"https", "://", "www", ".", "google", ".", "com", "/", "maps", "/", "place", "/", SiteNames[i]>>

\* what the resolver returns when the results page shows n links
Candidates(m, n) == [i \in 1..n |-> IF m = "directory" THEN MapsUrlOf(i) ELSE WebsiteOf(i)]

ContactAnchors ==
    << Anchor(Href("contact"), <<"Contact", " ", "Us">>),
       Anchor(Href("about"), <<"About">>),
       Anchor(Href("support"), <<"Help">>) >>

PageKinds == {"mail", "phone", "bare", "both"}

\* the pages a fetch on the website of candidate i may return
WebPage(kind, i) ==
    LET mailto == AddrElem("mailto", Addr("info", SiteNames[i], <<"com">>))
    IN  CASE kind = "mail"  -> [elems |-> <<mailto>>, anchors |-> <<>>]
          [] kind = "phone" -> [elems |-> <<PhoneElem("tel", D10)>>, anchors |-> ContactAnchors]
          [] kind = "bare"  -> [elems |-> <<>>, anchors |-> ContactAnchors]
          [] kind = "both"  -> [elems |-> <<PhoneElem("tel", <<"+", "9", "1", "-">> \o D10), mailto>>,
                                anchors |-> <<>>]

MapsKinds == {"full", "nameless", "nosite", "listed"}

\* the detail pages the directory may show for candidate i: the heading, the
\* text of the page and the targets of its anchors
MapsPage(kind, i) ==
    CASE kind = "full" ->
            [ h1 |-> <<" ", TitleTok(SiteNames[i])>>,
              text |-> <<"+", "9", "1", "-">> \o D10,
              links |-> << <<"https", "://", "support", ".", "google", ".", "com", "/">>,
                           WebsiteOf(i) >> ]
      [] kind = "nameless" ->
            [ h1 |-> None, text |-> D10, links |-> <<WebsiteOf(i)>> ]
      [] kind = "nosite" ->
            [ h1 |-> <<TitleTok(SiteNames[i])>>,
              text |-> <<>>,
              links |-> << <<"https", "://", "www", ".", "facebook", ".", "com", "/", SiteNames[i]>>,
                           <<"/", "maps", "/", "place", "/", "x">> >> ]
      [] kind = "listed" ->
            [ h1 |-> <<TitleTok(SiteNames[i])>>,
              text |-> <<>>,
              links |-> << <<"https", "://", "www", ".", "linkedin", ".", "com", "/", "company",
                             "/", SiteNames[i]>>,
                           WebsiteOf(i) >> ]

\* the domains scrape_google_maps_page leaves out
MapsExcluded ==
    { <<"google", ".", "com">>, <<"facebook", ".", "com">>, <<"instagram", ".", "com">>,
      <<"twitter", ".", "com">>, <<"youtube", ".", "com">> }

\* href.startswith('http')
StartsWithHttp(href) == href # <<>> /\ Head(href) \in {"http", "https"}

\* scrape_google_maps_page on a page that loaded
ParseMaps(page) ==
    LET hit == First(SelectSeq(page.links,
                          LAMBDA href : StartsWithHttp(href) /\ ~ContainsAny(href, MapsExcluded)))
    IN  [ business_name |-> IF page.h1 = None THEN None ELSE Strip(page.h1),
          phone         |-> FirstMobileGroup(page.text),
          website       |-> IF hit = <<>> THEN None ELSE hit[1] ]

\* domain.split('.')[0].title() of the netloc without 'www.'
NameFromUrl(url) == Title(TakeUntil(RemoveAll(urlparse(url).netloc, <<"www", ".">>), {"."}))

\* contact_pages[:2]
MaxSecondary == 2

\* EmptyReply that reports no results as an error
EmptyReplyAsError == [status |-> "error", results_count |-> 0, data |-> <<>>]

\* the reply for no results
EmptyReply == [status |-> "success", results_count |-> 0, data |-> <<>>]

\* the reply of the except branch of a route
ErrorReply == [status |-> "error", results_count |-> 0, data |-> <<>>]

\* structure_response
structure_response(cleaned_data) ==
    [status |-> "success", results_count |-> Len(cleaned_data), data |-> cleaned_data]

\* steps 3 of a route: the normalizer, inside the route's try
RouteReply(raw_data) ==
    IF process_scraped_data(raw_data).raised THEN ErrorReply
    ELSE structure_response(process_scraped_data(raw_data).value)

\* a or b
Or(a, b) == IF Truthy(a) THEN a ELSE b

InitRun ==
    /\ pc = "start"
    /\ mode \in {"directory", "web_search"}
    /\ urls = <<>> /\ idx = 0 /\ CandIdle
    /\ results = <<>> /\ reply = NoReply /\ session = 0
    /\ search_outcome = "none" /\ alloc_failed = FALSE /\ fetch_count = 0
    /\ mailto_seen = <<>> /\ paused = TRUE
    /\ ExtractIdle /\ PhoneIdle /\ NormIdle /\ LinkIdle

\* an entry of steps: a session start or a fetch, and how it ended
Step(step, page) == [step |-> step, page |-> page]

\* a fetch of the candidate's website showed a page with a mailto link
SawMailto(s) ==
    \E k \in 1..Len(s) :
        s[k].step \in {"fast", "render", "secondary"} /\ s[k].page \in {"mail", "both"}

\* FastFound that never takes the early return
FastNeverFound(result) == FALSE

\* if fast_result.get('email')
FastFound(result) == Truthy(result.email)

\* SecondaryPages that visits every contact page that was found
SecondaryPagesAll(pages) == pages

\* contact_pages[:2]
SecondaryPages(pages) == Prefix(pages, MaxSecondary)

\* the resolver starts its browser session
SearchInit ==
    /\ pc = "start"
    /\ \/ /\ session' = session + 1
          /\ pc' = "search_load"
          /\ UNCHANGED <<search_outcome, alloc_failed>>
       \/ /\ alloc_failed' = TRUE
          /\ search_outcome' = "no_session"
          /\ pc' = "route"
          /\ UNCHANGED session
    /\ UNCHANGED <<mode, urls, idx, candVars, results, reply, fetch_count, mailto_seen,
                   paused, idleVars>>

\* the resolver loads the results page and reads the links; the session is
\* closed on every path
SearchLoad ==
    /\ pc = "search_load"
    /\ \/ urls' = <<>> /\ search_outcome' = "load_failed"
       \/ \E n \in 0..MaxCand : urls' = Candidates(mode, n) /\ search_outcome' = "ok"
    /\ session' = session - 1
    /\ pc' = "route"
    /\ UNCHANGED <<mode, idx, candVars, results, reply, alloc_failed, fetch_count,
                   mailto_seen, paused, idleVars>>

\* if not urls / if not website_urls
Route ==
    /\ pc = "route"
    /\ IF urls = <<>>
       THEN reply' = EmptyReply /\ pc' = "done" /\ UNCHANGED idx
       ELSE idx' = 1 /\ pc' = "candidate" /\ UNCHANGED reply
    /\ UNCHANGED <<mode, urls, candVars, results, session, search_outcome, alloc_failed,
                   fetch_count, mailto_seen, paused, idleVars>>

\* the head of the loop over the candidates
NextCandidate ==
    /\ pc = "candidate"
    /\ maps_data' = NoMaps /\ contact' = NoContact /\ pending' = <<>>
    /\ fast_result' = NoContact /\ steps' = <<>>
    /\ IF idx > Len(urls) THEN pc' = "process" /\ site' = <<>>
       ELSE IF mode = "directory" THEN pc' = "maps_init" /\ site' = <<>>
       ELSE pc' = "fast" /\ site' = urls[idx]
    /\ UNCHANGED <<mode, urls, idx, results, reply, session, search_outcome, alloc_failed,
                   fetch_count, mailto_seen, paused, idleVars>>

\* scrape_google_maps_page starts its session; a failure is caught there
MapsInit ==
    /\ pc = "maps_init"
    /\ \/ /\ session' = session + 1 /\ pc' = "maps_load" /\ UNCHANGED alloc_failed
          /\ steps' = Append(steps, Step("maps_init", "ok"))
       \/ /\ alloc_failed' = TRUE /\ pc' = "after_maps" /\ UNCHANGED session
          /\ steps' = Append(steps, Step("maps_init", "failed"))
    /\ UNCHANGED <<mode, urls, idx, maps_data, site, contact, pending, fast_result, results,
                   reply, search_outcome, fetch_count, mailto_seen, paused, idleVars>>

\* scrape_google_maps_page loads the detail page
MapsLoad ==
    /\ pc = "maps_load"
    /\ \/ maps_data' = NoMaps /\ steps' = Append(steps, Step("maps", "failed"))
       \/ \E kind \in MapsKinds :
             /\ maps_data' = ParseMaps(MapsPage(kind, idx))
             /\ steps' = Append(steps, Step("maps", kind))
    /\ session' = session - 1
    /\ fetch_count' = fetch_count + 1
    /\ paused' = FALSE
    /\ pc' = "after_maps"
    /\ UNCHANGED <<mode, urls, idx, site, contact, pending, fast_result, results, reply,
                   search_outcome, alloc_failed, mailto_seen, idleVars>>

\* if website:
AfterMaps ==
    /\ pc = "after_maps"
    /\ IF Truthy(maps_data.website)
       THEN site' = maps_data.website /\ pc' = "fast"
       ELSE site' = site /\ pc' = "collect"
    /\ UNCHANGED <<mode, urls, idx, maps_data, contact, pending, fast_result, steps, results,
                   reply, session, search_outcome, alloc_failed, fetch_count, mailto_seen,
                   paused, idleVars>>

\* scrape_single_page: the fast fetch, and the return when it has an email
FastFetch ==
    /\ pc = "fast"
    /\ \/ /\ fast_result' = NoContact
          /\ steps' = Append(steps, Step("fast", "failed"))
          /\ contact' = NoContact /\ pc' = "driver_init"
       \/ \E kind \in PageKinds :
             /\ fast_result' = extract_contact_info_from_website(WebPage(kind, idx).elems)
             /\ steps' = Append(steps, Step("fast", kind))
             /\ IF FastFound(fast_result')
                THEN contact' = fast_result' /\ pc' = "collect"
                ELSE contact' = NoContact /\ pc' = "driver_init"
    /\ fetch_count' = fetch_count + 1
    /\ paused' = FALSE
    /\ UNCHANGED <<mode, urls, idx, maps_data, site, pending, results, reply, session,
                   search_outcome, alloc_failed, mailto_seen, idleVars>>

\* scrape_single_page starts its session, outside its try: a failure goes to
\* the caller, which records no email (directory) or skips the candidate (web)
DriverInit ==
    /\ pc = "driver_init"
    /\ \/ /\ session' = session + 1
          /\ pc' = "render"
          /\ steps' = Append(steps, Step("driver_init", "ok"))
          /\ UNCHANGED <<idx, alloc_failed, mailto_seen>>
       \/ /\ alloc_failed' = TRUE
          /\ steps' = Append(steps, Step("driver_init", "failed"))
          /\ IF mode = "directory"
             THEN pc' = "collect" /\ UNCHANGED <<idx, mailto_seen>>
             ELSE /\ pc' = "candidate" /\ idx' = idx + 1
                  /\ mailto_seen' = Append(mailto_seen, SawMailto(steps))
          /\ UNCHANGED session
    /\ UNCHANGED <<mode, urls, maps_data, site, contact, pending, fast_result, results, reply,
                   search_outcome, fetch_count, paused, idleVars>>

\* scrape_single_page: the rendered fetch of the website and the search for
\* contact pages when it has no email
Render ==
    /\ pc = "render"
    /\ \/ /\ contact' = NoContact
          /\ pending' = <<>>
          /\ steps' = Append(steps, Step("render", "failed"))
          /\ session' = session - 1
          /\ pc' = "collect"
       \/ \E kind \in PageKinds :
             LET page == WebPage(kind, idx)
                 contact_info_ == extract_contact_info_from_website(page.elems)
                 pages == SecondaryPages(find_contact_pages(page.anchors, site))
             IN  /\ contact' = contact_info_
                 /\ steps' = Append(steps, Step("render", kind))
                 /\ IF Truthy(contact_info_.email) \/ pages = <<>>
                    THEN pending' = <<>> /\ session' = session - 1 /\ pc' = "collect"
                    ELSE pending' = pages /\ session' = session /\ pc' = "secondary"
    /\ fetch_count' = fetch_count + 1
    /\ paused' = FALSE
    /\ UNCHANGED <<mode, urls, idx, maps_data, site, fast_result, results, reply,
                   search_outcome, alloc_failed, mailto_seen, idleVars>>

\* EndOfRound that leaves the session open when the loop ends
EndOfRoundKeepsSession(rest) ==
    /\ pending' = rest
    /\ session' = session
    /\ pc' = IF rest = <<>> THEN "collect" ELSE "secondary"

\* the end of one round of the loop over the contact pages: the session is
\* closed when the loop ends
EndOfRound(rest) ==
    /\ pending' = rest
    /\ IF rest = <<>>
       THEN session' = session - 1 /\ pc' = "collect"
       ELSE session' = session /\ pc' = "secondary"

\* scrape_single_page: one contact page
Secondary ==
    /\ pc = "secondary"
    /\ \/ /\ contact' = contact
          /\ steps' = Append(steps, Step("secondary", "failed"))
          /\ EndOfRound(Tail(pending))
       \/ \E kind \in PageKinds :
             LET additional_info == extract_contact_info_from_website(WebPage(kind, idx).elems)
             IN  /\ steps' = Append(steps, Step("secondary", kind))
                 /\ IF Truthy(additional_info.email)
                    THEN /\ contact' = [contact EXCEPT !.email = additional_info.email]
                         /\ EndOfRound(<<>>)
                    ELSE /\ contact' = IF Truthy(additional_info.phone) /\ ~Truthy(contact.phone)
                                       THEN [contact EXCEPT !.phone = additional_info.phone]
                                       ELSE contact
                         /\ EndOfRound(Tail(pending))
    /\ fetch_count' = fetch_count + 1
    /\ paused' = FALSE
    /\ UNCHANGED <<mode, urls, idx, maps_data, site, fast_result, results, reply,
                   search_outcome, alloc_failed, mailto_seen, idleVars>>

\* the record of the candidate is appended to the results
Collect ==
    /\ pc = "collect"
    /\ results' = Append(results,
          IF mode = "directory"
          THEN Raw(maps_data.business_name, contact.email,
                   Or(contact.phone, maps_data.phone), maps_data.website, urls[idx])
          ELSE Raw(NameFromUrl(urls[idx]), contact.email, contact.phone, urls[idx], urls[idx]))
    /\ mailto_seen' = Append(mailto_seen, SawMailto(steps))
    /\ pc' = "pause"
    /\ UNCHANGED <<mode, urls, idx, candVars, reply, session, search_outcome, alloc_failed,
                   fetch_count, paused, idleVars>>

\* time.sleep at the end of a round of the loop over the candidates
Pause ==
    /\ pc = "pause"
    /\ idx' = idx + 1
    /\ paused' = TRUE
    /\ pc' = "candidate"
    /\ UNCHANGED <<mode, urls, candVars, results, reply, session, search_outcome,
                   alloc_failed, fetch_count, mailto_seen, idleVars>>

\* the route hands the records to the normalizer and replies
Process ==
    /\ pc = "process"
    /\ reply' = IF mode = "web_search" /\ results = <<>> THEN EmptyReply
                ELSE RouteReply(results)
    /\ pc' = "done"
    /\ UNCHANGED <<mode, urls, idx, candVars, results, session, search_outcome, alloc_failed,
                   fetch_count, mailto_seen, paused, idleVars>>

Next ==
    \/ SearchInit \/ SearchLoad \/ Route \/ NextCandidate
    \/ MapsInit \/ MapsLoad \/ AfterMaps
    \/ FastFetch \/ DriverInit \/ Render \/ Secondary
    \/ Collect \/ Pause \/ Process

Spec == InitRun /\ [][Next]_vars

(* ------------------------------- claims -------------------------------- *)

\* C1: whatever the fetches of a run do (succeed, time out, are refused, fail
\* to render), the run ends with a result list and no error, the runs where
\* no browser session could be started at all left aside
C1_FetchFailureIsNotFatal ==
    (pc = "done" /\ ~alloc_failed) => reply.status = "success"

\* C9: when the resolver returns no candidate the run replies success with
\* zero records, and no candidate was fetched
C9_NoCandidatesIsSuccess ==
    (pc = "done" /\ urls = <<>>) =>
        /\ reply.status = "success"
        /\ reply.results_count = 0
        /\ reply.data = <<>>
        /\ fetch_count = 0

\* the results page of the web search loaded and showed no link
C9_Witness ==
    /\ pc = "done"
    /\ mode = "web_search"
    /\ search_outcome = "ok"
    /\ urls = <<>>
    /\ reply.status = "success"

\* C10: when no browser session can be started for the search step, the run
\* does not reply success with zero records
C10_NoSessionIsAnError ==
    (pc = "done" /\ search_outcome = "no_session") =>
        ~(reply.status = "success" /\ reply.results_count = 0)

Denylist == ExcludedScoped \cup ExcludedGeneral

\* C2: no email of a denylisted domain is in the normalizer's output,
\* whichever method of the extractor produced the address
C2_NoDenylistedEmail ==
    pc = "processed" =>
        \A i \in 1..Len(response.value) :
            ~(Truthy(response.value[i].email)
              /\ ContainsAny(response.value[i].email, Denylist))

\* a mailto link whose target is a well-formed address
WellFormedMailto(e) == e.kind = "mailto" /\ validate_email(AddrText(e.addr))

\* C3: when the document has a mailto link with a well-formed address, the
\* extractor returns the address of the first such link, lowercased, whatever
\* the other methods would find
C3_MailtoWins ==
    pc = "extracted" =>
        \A i \in 1..Len(doc) :
            (/\ WellFormedMailto(doc[i])
             /\ \A j \in 1..(i - 1) : ~WellFormedMailto(doc[j]))
            => contact_info.email = Lower(AddrText(doc[i].addr))

\* a data-email attribute comes first and a mailto link with capitals second:
\* the extractor returned the lowercased address of the link
C3_Witness ==
    /\ pc = "extracted"
    /\ Len(doc) = 2
    /\ doc[1] = AddrElem("data", Addr("john", "bakery", <<"com">>))
    /\ doc[2] = AddrElem("mailto", Addr("Info", "Bakery", <<"COM">>))
    /\ contact_info.email = <<"info", "@", "bakery", ".", "com">>

Retina == Addr("image", "2x", <<"png">>)

\* C4: a document whose only address-like string is image@2x.png, outside
\* mailto links and data-email attributes, yields no email
C4_RetinaIsNoEmail ==
    (/\ pc = "extracted"
     /\ doc # <<>>
     /\ \A i \in 1..Len(doc) : doc[i].kind = "text" /\ doc[i].addr = Retina)
    => contact_info.email = None

\* C5: format_phone applied to its own result returns that result
C5_FormatPhoneIdempotent == pc = "reformatted" => reformatted = formatted

\* a 10-digit input got the country code, and the second application, which
\* sees 12 digits, left it as it was
C5_Witness ==
    /\ pc = "reformatted"
    /\ Len(StripNonDigits(phone_string)) = 10
    /\ phone_string # StripNonDigits(phone_string)
    /\ formatted = <<"+", "9", "1", "-">> \o StripNonDigits(phone_string)
    /\ reformatted = formatted

\* the key of a record: lowercased business name, email, phone
KeyOf(item) == <<Lower(item.business_name), item.email, item.phone>>

\* the positions of data_list that hold the first record of a key that is not
\* entirely empty
FirstOfKey(data_list) ==
    { i \in 1..Len(data_list) :
        /\ AnyField(KeyOf(data_list[i]))
        /\ \A j \in 1..(i - 1) : KeyOf(data_list[j]) # KeyOf(data_list[i]) }

RECURSIVE AtPositions(_, _, _)
AtPositions(data_list, positions, i) ==
    IF i > Len(data_list) THEN <<>>
    ELSE (IF i \in positions THEN <<data_list[i]>> ELSE <<>>)
         \o AtPositions(data_list, positions, i + 1)

\* C6: remove_duplicates returns, in input order, exactly the first record of
\* every key that is not entirely empty
C6_FirstOfEveryKey ==
    (pc = "processed" /\ FirstOfKey(cleaned_list) # {})
    => /\ ~unique_list.raised
       /\ unique_list.value = AtPositions(cleaned_list, FirstOfKey(cleaned_list), 1)

Host(url) == urlparse(url).netloc

\* C7: find_contact_pages returns at most 3 URLs, pairwise distinct, each on
\* the host of the base URL, and none when no anchor has a contact keyword
C7_ContactPagesBounded ==
    pc = "discovered" =>
        /\ Len(contact_pages) <= 3
        /\ \A i, j \in 1..Len(contact_pages) : i # j => contact_pages[i] # contact_pages[j]
        /\ \A i \in 1..Len(contact_pages) : Host(contact_pages[i]) = Host(base_url)
        /\ (\A k \in 1..Len(anchors) : ~Qualifies(anchors[k])) => contact_pages = <<>>

\* three pages were returned, a fourth qualifying page of the same host was
\* cut off, and a qualifying anchor to another host was left out
C7_Witness ==
    /\ pc = "discovered"
    /\ Len(contact_pages) = 3
    /\ \E k \in 1..Len(anchors) :
          /\ Qualifies(anchors[k])
          /\ Host(urljoin(base_url, anchors[k].href)) = Host(base_url)
          /\ \A i \in 1..3 : contact_pages[i] # urljoin(base_url, anchors[k].href)

\* C8: every record process_scraped_data returns has an email, a phone or a
\* website
C8_ReturnedHasContact ==
    (pc = "processed" /\ ~response.raised) =>
        \A i \in 1..Len(response.value) :
            \/ response.value[i].email # None
            \/ response.value[i].phone # None
            \/ response.value[i].website # None

\* a record with a name and nothing else survived deduplication and was
\* dropped by the final filter, next to a record that was returned
C8_Witness ==
    /\ pc = "processed"
    /\ ~unique_list.raised
    /\ \E i \in 1..Len(unique_list.value) :
          /\ unique_list.value[i].email = None
          /\ unique_list.value[i].phone = None
          /\ unique_list.value[i].website = None
    /\ Len(response.value) >= 1
    /\ Len(response.value) < Len(unique_list.value)

\* C11: in directory mode, when the directory page shows 2 result links and
\* the website of each shows a mailto link with a well-formed address, the
\* run replies with exactly 2 records and each has an email
C11_TwoLinksTwoEmails ==
    (/\ pc = "done"
     /\ mode = "directory"
     /\ Len(urls) = 2
     /\ mailto_seen = <<TRUE, TRUE>>)
    => /\ reply.status = "success"
       /\ reply.results_count = 2
       /\ \A i \in 1..Len(reply.data) : reply.data[i].email # None

\* the round of candidate idx - 1 has ended and the next has not begun
RoundEnded == pc = "candidate" /\ idx > 1

\* the rendered fetch of the website failed, or its session did not start
LaterStepFailed(s) ==
    \E k \in 1..Len(s) : s[k] \in {Step("render", "failed"), Step("driver_init", "failed")}

\* C12: when the fast fetch of a candidate found a phone and the rendered
\* fetch then failed, or its session could not be started, the record of the
\* candidate is in the results and carries a phone
C12_DegradeKeepsFields ==
    (RoundEnded /\ Truthy(fast_result.phone) /\ LaterStepFailed(steps))
    => /\ results # <<>>
       /\ results[Len(results)].source_url = urls[idx - 1]
       /\ Truthy(results[Len(results)].phone)

FetchSteps == {"maps", "fast", "render", "secondary"}

\* C13: a fetch that is the first of its candidate is made only when there was
\* a pause since the last fetch made for an earlier candidate
C13_PauseBetweenCandidates ==
    [][ (fetch_count' # fetch_count /\ ~paused)
        => \E k \in 1..Len(steps) : steps[k].step \in FetchSteps ]_vars

StepPhone(st) ==
    IF st.page = "failed" THEN None
    ELSE extract_contact_info_from_website(WebPage(st.page, idx).elems).phone

\* the email of the page a step of the candidate fetched, None for a failure
StepEmail(st) ==
    IF st.page = "failed" THEN None
    ELSE extract_contact_info_from_website(WebPage(st.page, idx).elems).email

StepsOf(s, step) == SelectSeq(s, LAMBDA st : st.step = step)

\* C15: after the contact pages of a candidate were probed, a phone the main
\* page gave is still the candidate's phone, and without one the phone is
\* that of a probed page that has a phone, the page with the email included
C15_PhoneBackfilled ==
    (pc = "collect" /\ StepsOf(steps, "secondary") # <<>>)
    => LET main == StepPhone(StepsOf(steps, "render")[1])
           probed == StepsOf(steps, "secondary")
       IN  IF Truthy(main) THEN contact.phone = main
           ELSE (\E k \in 1..Len(probed) : Truthy(StepPhone(probed[k])))
                => \E k \in 1..Len(probed) :
                      Truthy(StepPhone(probed[k])) /\ contact.phone = StepPhone(probed[k])

\* the plain-text addresses of a document that are not excluded
PlainAddresses(d) ==
    SelectSeq(d, LAMBDA e : /\ e.kind = "text" /\ HasAddr(e) /\ StdMatch(e.addr)
                            /\ ~ContainsAny(Lower(AddrText(e.addr)), ExcludedGeneral))

\* the local part of the address starts with a business prefix
StartsWithPrefix(e) == <<LowerTok(Head(e.addr.local))>> \in BusinessPrefixes

\* the address the preference picks among the plain-text addresses
Preferred(d) ==
    LET valid == PlainAddresses(d)
        pref  == SelectSeq(valid, StartsWithPrefix)
    IN  IF pref # <<>> THEN Lower(AddrText(pref[1].addr))
        ELSE Lower(AddrText(valid[1].addr))

\* C16: for a document of several plain-text addresses and no mailto link,
\* data-email attribute or scoped region, the extractor returns the first
\* address that is not excluded and starts with a business prefix, and the
\* first that is not excluded when none has such a prefix
C16_BusinessPrefixPreferred ==
    (/\ pc = "extracted"
     /\ Len(doc) >= 2
     /\ \A i \in 1..Len(doc) : doc[i].kind = "text" /\ HasAddr(doc[i]) /\ StdMatch(doc[i].addr)
     /\ PlainAddresses(doc) # <<>>)
    => contact_info.email = Preferred(doc)

\* C17: once the fast fetch of a candidate has an email, no session is started
\* and no page is rendered or probed for the candidate, and the record of the
\* candidate has the email of the fast fetch
C17_FastEmailShortCircuits ==
    Truthy(fast_result.email)
    => /\ \A k \in 1..Len(steps) : steps[k].step \notin {"driver_init", "render", "secondary"}
       /\ pc \in {"collect", "pause", "candidate"}
       /\ pc \in {"pause", "candidate"}
          => /\ results # <<>>
             /\ results[Len(results)].email = fast_result.email

\* in directory mode the fast fetch found the email and the record has it
C17_Witness ==
    /\ pc = "pause"
    /\ mode = "directory"
    /\ Truthy(fast_result.email)
    /\ steps[Len(steps)].step = "fast"
    /\ results[Len(results)].email = fast_result.email

Count(s, step) == Len(StepsOf(s, step))

\* C18: a candidate causes at most one fast fetch, one rendered fetch, two
\* fetches of contact pages and, in directory mode, one detail fetch; contact
\* pages are fetched only when the fast fetch and the rendered fetch gave no
\* email, and none is fetched after one of them gave an email
C18_FetchBudget ==
    /\ Count(steps, "fast") <= 1
    /\ Count(steps, "render") <= 1
    /\ Count(steps, "secondary") <= 2
    /\ Count(steps, "maps") <= (IF mode = "directory" THEN 1 ELSE 0)
    /\ StepsOf(steps, "secondary") # <<>>
       => \A k \in 1..Len(steps) :
              steps[k].step \in {"fast", "render"} => ~Truthy(StepEmail(steps[k]))
    /\ \A j, k \in 1..Len(steps) :
          (j < k /\ steps[j].step = "secondary" /\ steps[k].step = "secondary")
          => ~Truthy(StepEmail(steps[j]))

\* a candidate of the directory used its whole budget: the detail fetch, the
\* fast fetch, the rendered fetch and two contact pages
C18_Witness ==
    /\ pc = "collect"
    /\ Count(steps, "maps") = 1
    /\ Count(steps, "fast") = 1
    /\ Count(steps, "render") = 1
    /\ Count(steps, "secondary") = 2

\* the domains the canonical website may not be on
SocialSearch ==
    {"google", "facebook", "instagram", "twitter", "youtube", "linkedin", "wikipedia", "maps"}

\* C19: the website taken from a directory detail page is never a URL on a
\* google, facebook, instagram, twitter, youtube, linkedin, wikipedia or maps
\* domain
C19_WebsiteNotSocial ==
    (pc = "after_maps" /\ Truthy(maps_data.website))
    => \A d \in SocialSearch : ~Contains(urlparse(maps_data.website).netloc, <<d>>)

=============================================================================
